---- MODULE Spec2Model ----
(***************************************************************************)
(* Data-access layer of the kanban service: the generic CRUD engine        *)
(* (app/repositories/base.py), the position ordering engine (reorder_card, *)
(* reorder_column, move_card) and the cascading deletes of the card,       *)
(* column and board repositories.                                          *)
(*                                                                         *)
(* The store is one record of tables, each a function from the ids of the  *)
(* rows that exist to the row.  A timestamp is never read by the code      *)
(* except for "deleted_at IS NULL", so deleted_at is NULL or SET and every *)
(* operation records which rows had updated_at refreshed (touched), which  *)
(* had deleted_at assigned (stamped) and which were removed (removed).     *)
(*                                                                         *)
(* Spec and SpecOrder run each call to completion.  SpecMoves and          *)
(* SpecCascade run the calls of concurrent requests (one session each)     *)
(* commit by commit: run holds each request's call in progress.            *)
(***************************************************************************)
EXTENDS Integers, Sequences, FiniteSets, TLC

VARIABLES db, pre, last, ops, run

vars == <<db, pre, last, ops, run>>

\* ---------------------------------------------------------------- bounds
NumWorkspaces == 1
NumBoards == 2
NumColumns == 3
NumCards == 4
NumNotes == 1
MaxOps == 2
NumWorkers == 2

\* limit=1000 passed by reorder_card / move_card / reorder_column
ListLimit == 1000

Tenants == {"t1", "t2"}
WorkspaceIds == 1..NumWorkspaces
BoardIds == 1..NumBoards
ColumnIds == 1..NumColumns
CardIds == 1..NumCards
CommentIds == 1..NumNotes
AttachmentIds == 1..NumNotes
Tables == {"workspaces", "boards", "columns", "cards", "comments", "attachments"}
MaxVersion == MaxOps + 1
\* an Optional[int] argument is <<>> (None) or <<n>>
NoneArg == <<>>
VersionArgs == {NoneArg} \cup {<<v>> : v \in 1..MaxVersion}
PosArgs == (0 - 1)..NumCards
OptPosArgs == {NoneArg} \cup {<<p>> : p \in PosArgs}

\* deleted_at: default=None, or a timestamp
NULL == "null"
SET == "set"
\* boards.workspace_id is nullable: the id that stands for NULL
NoWorkspace == 0

Max(a, b) == IF a >= b THEN a ELSE b
Min(a, b) == IF a <= b THEN a ELSE b
Range(s) == {s[i] : i \in 1..Len(s)}

\* ------------------------------------------------------------ generic CRUD
\* the outcome of running statements against the store d
Start(d) == [db |-> d, touched |-> {}, stamped |-> {}, removed |-> {}, ok |-> FALSE]

IdsOf(tbl) ==
    CASE tbl = "workspaces" -> WorkspaceIds
      [] tbl = "boards" -> BoardIds
      [] tbl = "columns" -> ColumnIds
      [] tbl = "cards" -> CardIds
      [] tbl = "comments" -> CommentIds
      [] tbl = "attachments" -> AttachmentIds

\* mutant: get_by_id never filters on deleted_at
GetByIdAnyState(d, tbl, id, tenant_id, include_deleted) ==
    IF id \in DOMAIN d[tbl] /\ d[tbl][id].tenant_id = tenant_id
    THEN <<d[tbl][id]>>
    ELSE <<>>

\* get_by_id: <<row>> or <<>> (None)
GetById(d, tbl, id, tenant_id, include_deleted) ==
    IF /\ id \in DOMAIN d[tbl]
       /\ d[tbl][id].tenant_id = tenant_id
       /\ (include_deleted \/ d[tbl][id].deleted_at = NULL)
    THEN <<d[tbl][id]>>
    ELSE <<>>

\* mutant: a list() query that never filters on deleted_at
SelectedAnyState(d, tbl, tenant_id, include_deleted, filters) ==
    {id \in DOMAIN d[tbl] :
        /\ d[tbl][id].tenant_id = tenant_id
        /\ \A f \in DOMAIN filters :
              f \in DOMAIN d[tbl][id] => d[tbl][id][f] = filters[f]}

\* the ids a list() query selects: tenant, deleted_at filter, equality filters on
\* the fields the model has
Selected(d, tbl, tenant_id, include_deleted, filters) ==
    {id \in DOMAIN d[tbl] :
        /\ d[tbl][id].tenant_id = tenant_id
        /\ (include_deleted \/ d[tbl][id].deleted_at = NULL)
        /\ \A f \in DOMAIN filters :
              f \in DOMAIN d[tbl][id] => d[tbl][id][f] = filters[f]}

RECURSIVE OrderedDesc(_, _, _)
\* every sequence of the ids S in descending order of field order_by
\* (rows with equal keys come in any order)
OrderedDesc(S, rows, order_by) ==
    IF S = {} THEN {<<>>}
    ELSE UNION {{<<x>> \o t : t \in OrderedDesc(S \ {x}, rows, order_by)} :
                  x \in {y \in S : \A z \in S : rows[y][order_by] >= rows[z][order_by]}}

Take(s, limit) == SubSeq(s, 1, Min(limit, Len(s)))

\* list(): the possible result lists (sequences of ids), offset 0
List(d, tbl, tenant_id, limit, include_deleted, order_by, filters) ==
    {Take(s, limit) :
        s \in OrderedDesc(Selected(d, tbl, tenant_id, include_deleted, filters),
                          d[tbl], order_by)}

\* count(): the number of rows the same WHERE clauses select
Count(d, tbl, tenant_id, include_deleted, filters) ==
    Cardinality(Selected(d, tbl, tenant_id, include_deleted, filters))

\* mutant: the WHERE clause without the version comparison
WhereMatchesNoVersion(d, tbl, id, tenant_id, version) ==
    /\ id \in DOMAIN d[tbl]
    /\ d[tbl][id].tenant_id = tenant_id

\* WHERE clause of update / delete
WhereMatches(d, tbl, id, tenant_id, version) ==
    /\ id \in DOMAIN d[tbl]
    /\ d[tbl][id].tenant_id = tenant_id
    /\ (version # NoneArg => d[tbl][id].version = version[1])

\* mutant: a versioned update starts the version over
UpdateValuesRestart(row, data, version) ==
    LET r == [f \in DOMAIN row |-> IF f \in DOMAIN data THEN data[f] ELSE row[f]]
    IN IF version # NoneArg THEN [r EXCEPT !.version = 1] ELSE r

\* mutant: the update leaves the version as it was
UpdateValuesNoBump(row, data, version) ==
    [f \in DOMAIN row |-> IF f \in DOMAIN data THEN data[f] ELSE row[f]]

\* SET clause of update: the data, version + 1 only when a version was passed
UpdateValues(row, data, version) ==
    LET r == [f \in DOMAIN row |-> IF f \in DOMAIN data THEN data[f] ELSE row[f]]
    IN IF version # NoneArg THEN [r EXCEPT !.version = version[1] + 1] ELSE r

\* update() always assigns updated_at; Attachment derives from Base and has no
\* such column, so its UPDATE statement cannot be compiled and raises
HasUpdatedAt(tbl) == tbl # "attachments"

\* the UPDATE statement of BaseRepository.update, committed
BaseUpdate(st, tbl, id, tenant_id, data, version) ==
    IF ~HasUpdatedAt(tbl) THEN st
    ELSE IF WhereMatches(st.db, tbl, id, tenant_id, version)
    THEN [st EXCEPT !.db[tbl][id] = UpdateValues(@, data, version),
                    !.touched = @ \cup {<<tbl, id>>}]
    ELSE st

\* what BaseRepository.update returns: None (FALSE) or the entity (TRUE)
UpdateReturns(before, after, tbl, id, tenant_id, version) ==
    /\ HasUpdatedAt(tbl)
    /\ WhereMatches(before, tbl, id, tenant_id, version)
    /\ GetById(after, tbl, id, tenant_id, FALSE) # <<>>

\* ------------------------------------------------------- ordering engine
RECURSIVE BatchUpdatePositions(_, _, _, _)
\* batch_update_positions: one update() per (id, new_position), no version
BatchUpdatePositions(st, tbl, tenant_id, positions) ==
    IF positions = <<>> THEN st
    ELSE BatchUpdatePositions(
             BaseUpdate(st, tbl, positions[1][1], tenant_id,
                        [position |-> positions[1][2]], NoneArg),
             tbl, tenant_id, Tail(positions))

\* mutant: the target index is clamped from below only
ClampReorderNoUpper(new_position, n) == Max(0, new_position)

\* new_position = max(0, min(new_position, len(items) - 1))
ClampReorder(new_position, n) == Max(0, Min(new_position, n - 1))

\* mutant: the forward shift range excludes its upper end
NewPositionsOpenRange(rows, items, item_id, old_position, new_position) ==
    [i \in 1..Len(items) |->
        LET p == rows[items[i]].position IN
        IF items[i] = item_id THEN <<items[i], new_position>>
        ELSE IF old_position < new_position
             THEN (IF old_position < p /\ p < new_position
                   THEN <<items[i], p - 1>> ELSE <<items[i], p>>)
             ELSE (IF new_position <= p /\ p < old_position
                   THEN <<items[i], p + 1>> ELSE <<items[i], p>>)]

\* mutant: only the reordered item gets a new position
NewPositionsNoShift(rows, items, item_id, old_position, new_position) ==
    [i \in 1..Len(items) |->
        IF items[i] = item_id THEN <<items[i], new_position>>
        ELSE <<items[i], rows[items[i]].position>>]

\* the (id, position) list reorder computes for the listed items
NewPositions(rows, items, item_id, old_position, new_position) ==
    [i \in 1..Len(items) |->
        LET p == rows[items[i]].position IN
        IF items[i] = item_id THEN <<items[i], new_position>>
        ELSE IF old_position < new_position
             THEN (IF old_position < p /\ p <= new_position
                   THEN <<items[i], p - 1>> ELSE <<items[i], p>>)
             ELSE (IF new_position <= p /\ p < old_position
                   THEN <<items[i], p + 1>> ELSE <<items[i], p>>)]

\* mutant: the unchanged-position shortcut is never taken
IsNoOpNever(old_position, new_position) == FALSE

\* if old_position == new_position: return True
IsNoOp(old_position, new_position) == old_position = new_position

\* body of reorder_card / reorder_column once the siblings are listed
Reorder(d, tbl, items, item_id, new_position, tenant_id) ==
    IF items = <<>> THEN Start(d)
    ELSE IF item_id \notin Range(items) THEN Start(d)
    ELSE LET old_position == d[tbl][item_id].position
             clamped == ClampReorder(new_position, Len(items))
         IN IF IsNoOp(old_position, clamped)
            THEN [Start(d) EXCEPT !.ok = TRUE]
            ELSE [BatchUpdatePositions(Start(d), tbl, tenant_id,
                      NewPositions(d[tbl], items, item_id, old_position, clamped))
                  EXCEPT !.ok = TRUE]

\* mutant: the listing is not filtered by column
ListByColumnUnfiltered(d, column_id, tenant_id) ==
    List(d, "cards", tenant_id, ListLimit, FALSE, "position", <<>>)

\* list_by_column: list(order_by="position", filters={"column_id": column_id})
ListByColumn(d, column_id, tenant_id) ==
    List(d, "cards", tenant_id, ListLimit, FALSE, "position", [column_id |-> column_id])

\* ColumnRepository.list_by_board
ListByBoard(d, board_id, tenant_id) ==
    List(d, "columns", tenant_id, ListLimit, FALSE, "position", [board_id |-> board_id])

\* mutant: append at the last occupied position instead of after it
MoveTargetLast(target_position, n) ==
    IF target_position = NoneArg THEN Max(0, n - 1)
    ELSE Max(0, Min(target_position[1], n))

\* mutant: an explicit target index is clamped from below only
MoveTargetNoUpper(target_position, n) ==
    IF target_position = NoneArg THEN n
    ELSE Max(0, target_position[1])

\* target_position of a cross-column move: append, or clamp to [0, len]
MoveTarget(target_position, n) ==
    IF target_position = NoneArg THEN n
    ELSE Max(0, Min(target_position[1], n))

\* the target column's (id, position) list: enumerate index i, shifted from
\* target_position on, then the moved card
TargetPositions(target_cards, card_id, target_position) ==
    [i \in 1..Len(target_cards) |->
        IF i - 1 >= target_position
        THEN <<target_cards[i], (i - 1) + 1>>
        ELSE <<target_cards[i], i - 1>>]
    \o <<<<card_id, target_position>>>>

\* the cards.column_id foreign key: the referenced column row must exist
ColumnFkHolds(d, column_id) == column_id \in DOMAIN d.columns

\* mutant: a move within the card's own column is handled as an insertion
MoveNoDelegation(d, card_id, target_column_id, target_position, tenant_id, target_cards) ==
    IF GetById(d, "cards", card_id, tenant_id, FALSE) = <<>> THEN Start(d)
    ELSE LET tp == MoveTarget(target_position, Len(target_cards))
             st1 == BatchUpdatePositions(Start(d), "cards", tenant_id,
                        TargetPositions(target_cards, card_id, tp))
         IN IF ColumnFkHolds(d, target_column_id)
            THEN [BaseUpdate(st1, "cards", card_id, tenant_id,
                             [column_id |-> target_column_id], NoneArg)
                  EXCEPT !.ok = TRUE]
            ELSE st1

\* what reorder_card / reorder_column hand back to the caller: the success flag
ReorderResult(ok) == [success |-> ok]

\* body of move_card; target_cards is list_by_column(target_column_id)
Move(d, card_id, target_column_id, target_position, tenant_id, target_cards) ==
    IF GetById(d, "cards", card_id, tenant_id, FALSE) = <<>> THEN Start(d)
    ELSE IF d.cards[card_id].column_id = target_column_id
    THEN IF target_position # NoneArg
         THEN Reorder(d, "cards", target_cards, card_id, target_position[1], tenant_id)
         ELSE [Start(d) EXCEPT !.ok = TRUE]
    ELSE LET tp == MoveTarget(target_position, Len(target_cards))
             st1 == BatchUpdatePositions(Start(d), "cards", tenant_id,
                        TargetPositions(target_cards, card_id, tp))
         IN IF ColumnFkHolds(d, target_column_id)
            THEN [BaseUpdate(st1, "cards", card_id, tenant_id,
                             [column_id |-> target_column_id], NoneArg)
                  EXCEPT !.ok = TRUE]
            ELSE st1

\* ---------------------------------------------------------------- deletes
Drop(f, S) == [x \in DOMAIN f \ S |-> f[x]]

\* DELETE of the rows S of a table, with the ON DELETE CASCADE foreign keys of the
\* models (comments/attachments.card_id, cards.column_id, cards/columns.board_id,
\* boards.workspace_id)
DeleteRows(st, tbl, S) ==
    LET d == st.db
        workspaces == IF tbl = "workspaces" THEN S ELSE {}
        boards == IF tbl = "boards" THEN S
                  ELSE {b \in DOMAIN d.boards : d.boards[b].workspace_id \in workspaces}
        columns == IF tbl = "columns" THEN S
                   ELSE {c \in DOMAIN d.columns : d.columns[c].board_id \in boards}
        cards == IF tbl = "cards" THEN S
                 ELSE {k \in DOMAIN d.cards :
                          \/ d.cards[k].column_id \in columns
                          \/ d.cards[k].board_id \in boards}
        comments == IF tbl = "comments" THEN S
                    ELSE {m \in DOMAIN d.comments : d.comments[m].card_id \in cards}
        attachments == IF tbl = "attachments" THEN S
                       ELSE {a \in DOMAIN d.attachments : d.attachments[a].card_id \in cards}
    IN [st EXCEPT !.db = [workspaces |-> Drop(d.workspaces, workspaces),
                          boards |-> Drop(d.boards, boards),
                          columns |-> Drop(d.columns, columns),
                          cards |-> Drop(d.cards, cards),
                          comments |-> Drop(d.comments, comments),
                          attachments |-> Drop(d.attachments, attachments)],
                  !.removed = @ \cup {<<"workspaces", x>> : x \in workspaces}
                                \cup {<<"boards", x>> : x \in boards}
                                \cup {<<"columns", x>> : x \in columns}
                                \cup {<<"cards", x>> : x \in cards}
                                \cup {<<"comments", x>> : x \in comments}
                                \cup {<<"attachments", x>> : x \in attachments}]

\* mutant: the soft cascade without its deleted_at IS NULL condition
DependentsAnyState(d, tbl, field, parent_id, tenant_id, only_live) ==
    {x \in DOMAIN d[tbl] :
        /\ d[tbl][x][field] = parent_id
        /\ d[tbl][x].tenant_id = tenant_id}

\* the dependents a cascade statement selects: parent pointer and tenant, and for
\* the soft delete only the rows with deleted_at IS NULL
Dependents(d, tbl, field, parent_id, tenant_id, only_live) ==
    {x \in DOMAIN d[tbl] :
        /\ d[tbl][x][field] = parent_id
        /\ d[tbl][x].tenant_id = tenant_id
        /\ (only_live => d[tbl][x].deleted_at = NULL)}

\* UPDATE ... SET deleted_at = now, version = version + 1 on the rows S
SoftDeleteRows(st, tbl, S) ==
    [st EXCEPT !.db[tbl] = [x \in DOMAIN @ |->
                               IF x \in S
                               THEN [@[x] EXCEPT !.deleted_at = SET, !.version = @ + 1]
                               ELSE @[x]],
               !.touched = @ \cup {<<tbl, x>> : x \in S},
               !.stamped = @ \cup {<<tbl, x>> : x \in S}]

\* the parent's own soft delete: deleted_at = now, version + 1 only when a version
\* was passed
SoftDeleteValues(row, version) ==
    IF version # NoneArg
    THEN [row EXCEPT !.deleted_at = SET, !.version = version[1] + 1]
    ELSE [row EXCEPT !.deleted_at = SET]

\* the final statement of every delete: on the row itself, WHERE id, tenant_id
\* and (if given) version; returns rowcount > 0
DeleteRow(st, tbl, id, tenant_id, version, hard_delete) ==
    IF ~WhereMatches(st.db, tbl, id, tenant_id, version) THEN [st EXCEPT !.ok = FALSE]
    ELSE IF hard_delete THEN [DeleteRows(st, tbl, {id}) EXCEPT !.ok = TRUE]
    ELSE [st EXCEPT !.db[tbl][id] = SoftDeleteValues(@, version),
                    !.touched = @ \cup {<<tbl, id>>},
                    !.stamped = @ \cup {<<tbl, id>>},
                    !.ok = TRUE]

\* BaseRepository.delete (workspaces, comments, attachments)
BaseDelete(d, tbl, id, tenant_id, version, hard_delete) ==
    DeleteRow(Start(d), tbl, id, tenant_id, version, hard_delete)

\* the guard of the cascading deletes: the row is live and, if a version was
\* passed, has it
CascadeGuard(d, tbl, id, tenant_id, version) ==
    /\ GetById(d, tbl, id, tenant_id, FALSE) # <<>>
    /\ (version # NoneArg => d[tbl][id].version = version[1])

\* the statements of CardRepository.delete, committed together
CardCascade(d, id, tenant_id, version, hard_delete) ==
    IF hard_delete
    THEN LET st1 == DeleteRows(Start(d), "comments",
                        Dependents(d, "comments", "card_id", id, tenant_id, FALSE))
             st2 == DeleteRows(st1, "attachments",
                        Dependents(d, "attachments", "card_id", id, tenant_id, FALSE))
         IN DeleteRow(st2, "cards", id, tenant_id, version, TRUE)
    ELSE LET st1 == SoftDeleteRows(Start(d), "comments",
                        Dependents(d, "comments", "card_id", id, tenant_id, TRUE))
             st2 == SoftDeleteRows(st1, "attachments",
                        Dependents(d, "attachments", "card_id", id, tenant_id, TRUE))
         IN DeleteRow(st2, "cards", id, tenant_id, version, FALSE)

\* CardRepository.delete
CardDelete(d, id, tenant_id, version, hard_delete) ==
    IF ~CascadeGuard(d, "cards", id, tenant_id, version) THEN Start(d)
    ELSE CardCascade(d, id, tenant_id, version, hard_delete)

\* the statements of ColumnRepository.delete; the module never imports
\* sqlalchemy's delete, so the hard branch raises NameError, is rolled back and
\* returns False
ColumnCascade(d, id, tenant_id, version, hard_delete) ==
    IF hard_delete THEN Start(d)
    ELSE LET st1 == SoftDeleteRows(Start(d), "cards",
                        Dependents(d, "cards", "column_id", id, tenant_id, TRUE))
         IN DeleteRow(st1, "columns", id, tenant_id, version, FALSE)

\* ColumnRepository.delete
ColumnDelete(d, id, tenant_id, version, hard_delete) ==
    IF ~CascadeGuard(d, "columns", id, tenant_id, version) THEN Start(d)
    ELSE ColumnCascade(d, id, tenant_id, version, hard_delete)

\* the statements of BoardRepository.delete, committed together
BoardCascade(d, id, tenant_id, version, hard_delete) ==
    IF hard_delete
    THEN LET st1 == DeleteRows(Start(d), "cards",
                        Dependents(d, "cards", "board_id", id, tenant_id, FALSE))
             st2 == DeleteRows(st1, "columns",
                        Dependents(st1.db, "columns", "board_id", id, tenant_id, FALSE))
         IN DeleteRow(st2, "boards", id, tenant_id, version, TRUE)
    ELSE LET st1 == SoftDeleteRows(Start(d), "cards",
                        Dependents(d, "cards", "board_id", id, tenant_id, TRUE))
             st2 == SoftDeleteRows(st1, "columns",
                        Dependents(d, "columns", "board_id", id, tenant_id, TRUE))
         IN DeleteRow(st2, "boards", id, tenant_id, version, FALSE)

\* BoardRepository.delete
BoardDelete(d, id, tenant_id, version, hard_delete) ==
    IF ~CascadeGuard(d, "boards", id, tenant_id, version) THEN Start(d)
    ELSE BoardCascade(d, id, tenant_id, version, hard_delete)

\* mutant: the hard delete removes the row itself first, then its dependents
HardDeleteStepsParentFirst(d, tbl, id, tenant_id, version) ==
    IF tbl = "cards"
    THEN LET st1 == DeleteRow(Start(d), "cards", id, tenant_id, version, TRUE)
             st2 == DeleteRows(st1, "comments",
                        Dependents(st1.db, "comments", "card_id", id, tenant_id, FALSE))
             st3 == DeleteRows(st2, "attachments",
                        Dependents(st2.db, "attachments", "card_id", id, tenant_id, FALSE))
         IN <<[tbl |-> "cards", st |-> st1], [tbl |-> "comments", st |-> st2],
              [tbl |-> "attachments", st |-> st3]>>
    ELSE LET st1 == DeleteRow(Start(d), "boards", id, tenant_id, version, TRUE)
             st2 == DeleteRows(st1, "columns",
                        Dependents(st1.db, "columns", "board_id", id, tenant_id, FALSE))
             st3 == DeleteRows(st2, "cards",
                        Dependents(st2.db, "cards", "board_id", id, tenant_id, FALSE))
         IN <<[tbl |-> "boards", st |-> st1], [tbl |-> "columns", st |-> st2],
              [tbl |-> "cards", st |-> st3]>>

\* the DELETE statements of a card (else board) hard delete in the order they are
\* executed: the table each one names and the transaction's rows after it
HardDeleteSteps(d, tbl, id, tenant_id, version) ==
    IF tbl = "cards"
    THEN LET st1 == DeleteRows(Start(d), "comments",
                        Dependents(d, "comments", "card_id", id, tenant_id, FALSE))
             st2 == DeleteRows(st1, "attachments",
                        Dependents(st1.db, "attachments", "card_id", id, tenant_id, FALSE))
             st3 == DeleteRow(st2, "cards", id, tenant_id, version, TRUE)
         IN <<[tbl |-> "comments", st |-> st1], [tbl |-> "attachments", st |-> st2],
              [tbl |-> "cards", st |-> st3]>>
    ELSE LET st1 == DeleteRows(Start(d), "cards",
                        Dependents(d, "cards", "board_id", id, tenant_id, FALSE))
             st2 == DeleteRows(st1, "columns",
                        Dependents(st1.db, "columns", "board_id", id, tenant_id, FALSE))
             st3 == DeleteRow(st2, "boards", id, tenant_id, version, TRUE)
         IN <<[tbl |-> "cards", st |-> st1], [tbl |-> "columns", st |-> st2],
              [tbl |-> "boards", st |-> st3]>>

\* delete() of the repository of table tbl
RepoDelete(d, tbl, id, tenant_id, version, hard_delete) ==
    CASE tbl = "cards" -> CardDelete(d, id, tenant_id, version, hard_delete)
      [] tbl = "columns" -> ColumnDelete(d, id, tenant_id, version, hard_delete)
      [] tbl = "boards" -> BoardDelete(d, id, tenant_id, version, hard_delete)
      [] OTHER -> BaseDelete(d, tbl, id, tenant_id, version, hard_delete)

\* BaseRepository.update with its return value
RepoUpdate(d, tbl, id, tenant_id, data, version) ==
    LET st == BaseUpdate(Start(d), tbl, id, tenant_id, data, version)
    IN [st EXCEPT !.ok = UpdateReturns(d, st.db, tbl, id, tenant_id, version)]

\* the foreign keys of a row: each parent pointer it carries names a stored row
\* (workspace_id may be NULL)
FkHolds(d, data) ==
    /\ "workspace_id" \in DOMAIN data =>
           data.workspace_id = NoWorkspace \/ data.workspace_id \in DOMAIN d.workspaces
    /\ "board_id" \in DOMAIN data => data.board_id \in DOMAIN d.boards
    /\ "column_id" \in DOMAIN data => ColumnFkHolds(d, data.column_id)
    /\ "card_id" \in DOMAIN data => data.card_id \in DOMAIN d.cards

\* BaseRepository.create: the row is the data with tenant_id set and the column
\* defaults; an IntegrityError is rolled back and raised
RepoCreate(d, tbl, id, data, tenant_id) ==
    IF FkHolds(d, data)
    THEN [Start(d) EXCEPT
             !.db[tbl] = @ @@ (id :> ([tenant_id |-> tenant_id, version |-> 1,
                                       deleted_at |-> NULL] @@ data)),
             !.ok = TRUE]
    ELSE Start(d)

\* ------------------------------------------------------------------ state
NewRow(tenant_id) == [tenant_id |-> tenant_id, version |-> 1, deleted_at |-> NULL, title |-> "a"]

\* the rows create() leaves for a board layout: the boards of the first board's
\* tenant in workspace 1 and the others in none, column c in board colBoard[c] and
\* card k in column cardCol[k], siblings at positions 0..n-1 in id order
Seed(boardTenant, colBoard, cardCol, noteCard) ==
    [workspaces |-> [w \in WorkspaceIds |-> NewRow(boardTenant[1])],
     boards |-> [b \in BoardIds |->
         NewRow(boardTenant[b]) @@
         [workspace_id |-> IF boardTenant[b] = boardTenant[1] THEN 1 ELSE NoWorkspace]],
     columns |-> [c \in ColumnIds |->
         NewRow(boardTenant[colBoard[c]]) @@
         [board_id |-> colBoard[c],
          position |-> Cardinality({x \in ColumnIds : x < c /\ colBoard[x] = colBoard[c]})]],
     cards |-> [k \in CardIds |->
         NewRow(boardTenant[colBoard[cardCol[k]]]) @@
         [board_id |-> colBoard[cardCol[k]], column_id |-> cardCol[k],
          position |-> Cardinality({x \in CardIds : x < k /\ cardCol[x] = cardCol[k]})]],
     comments |-> [m \in DOMAIN noteCard |->
         NewRow(boardTenant[colBoard[cardCol[noteCard[m]]]]) @@ [card_id |-> noteCard[m]]],
     attachments |-> [a \in DOMAIN noteCard |->
         NewRow(boardTenant[colBoard[cardCol[noteCard[a]]]]) @@ [card_id |-> noteCard[a]]]]

NonDecreasing(f) == \A i, j \in DOMAIN f : i <= j => f[i] <= f[j]

NoOp == [op |-> "none", tbl |-> "none", tenant_id |-> "t1", id |-> 0, target |-> 0, pos |-> NoneArg,
         version |-> NoneArg, hard |-> FALSE,
         ok |-> FALSE, touched |-> {}, stamped |-> {}, removed |-> {}]

\* the requests that can be in progress at once
Workers == 1..NumWorkers

\* a request that has made no call yet
Idle == [pc |-> "idle", call |-> NoOp, start |-> [t \in Tables |-> <<>>],
         writes |-> <<>>, fault |-> FALSE]

\* the layout the other one is varied against
SeedColBoard == [c \in ColumnIds |-> IF c < NumColumns THEN 1 ELSE NumBoards]
SeedCardCol == [k \in CardIds |-> ((k - 1) % NumColumns) + 1]

\* one tenant; every dense layout of the cards over the columns, and every dense
\* layout of the columns over the boards (ids in position order)
InitOrder ==
    /\ \E colBoard \in [ColumnIds -> BoardIds], cardCol \in [CardIds -> ColumnIds] :
          /\ NonDecreasing(colBoard)
          /\ NonDecreasing(cardCol) \/ cardCol = SeedCardCol
          /\ colBoard = SeedColBoard \/ cardCol = SeedCardCol
          /\ db = Seed([b \in BoardIds |-> "t1"], colBoard, cardCol, <<>>)
    /\ pre = db
    /\ last = NoOp
    /\ ops = 0
    /\ run = [w \in Workers |-> Idle]

\* the operation's outcome becomes the state
Finish(st, call) ==
    /\ db' = st.db
    /\ pre' = db
    /\ last' = [call EXCEPT !.ok = st.ok, !.touched = st.touched,
                            !.stamped = st.stamped, !.removed = st.removed]
    /\ ops' = ops + 1
    /\ UNCHANGED run

ReorderCard(card_id, column_id, new_position, tenant_id) ==
    /\ ops < MaxOps
    /\ \E cards \in ListByColumn(db, column_id, tenant_id) :
          Finish(Reorder(db, "cards", cards, card_id, new_position, tenant_id),
                 [NoOp EXCEPT !.op = "reorder_card", !.tbl = "cards", !.tenant_id = tenant_id,
                              !.id = card_id, !.target = column_id,
                              !.pos = <<new_position>>])

ReorderColumn(column_id, board_id, new_position, tenant_id) ==
    /\ ops < MaxOps
    /\ \E columns \in ListByBoard(db, board_id, tenant_id) :
          Finish(Reorder(db, "columns", columns, column_id, new_position, tenant_id),
                 [NoOp EXCEPT !.op = "reorder_column", !.tbl = "columns", !.tenant_id = tenant_id,
                              !.id = column_id, !.target = board_id,
                              !.pos = <<new_position>>])

MoveCard(card_id, target_column_id, target_position, tenant_id) ==
    /\ ops < MaxOps
    /\ \E target_cards \in ListByColumn(db, target_column_id, tenant_id) :
          Finish(Move(db, card_id, target_column_id, target_position, tenant_id,
                      target_cards),
                 [NoOp EXCEPT !.op = "move_card", !.tbl = "cards", !.tenant_id = tenant_id,
                              !.id = card_id, !.target = target_column_id,
                              !.pos = target_position])

NextOrder ==
    \/ \E k \in CardIds, c \in ColumnIds, p \in PosArgs, t \in Tenants :
          ReorderCard(k, c, p, t)
    \/ \E c \in ColumnIds, b \in BoardIds, p \in PosArgs, t \in Tenants :
          ReorderColumn(c, b, p, t)
    \/ \E k \in CardIds, c \in ColumnIds, p \in OptPosArgs, t \in Tenants :
          MoveCard(k, c, p, t)

SpecOrder == InitOrder /\ [][NextOrder]_vars

\* two tenants: board 1 (tenant t1) with all columns but the last, the other boards
\* tenant t2; the cards dealt over the columns; comment m and attachment m on a card
SeedTenant == [b \in BoardIds |-> IF b = 1 THEN "t1" ELSE "t2"]
SeedNoteCard == [m \in 1..NumNotes |-> ((m - 1) % NumCards) + 1]

Init ==
    /\ db = Seed(SeedTenant, SeedColBoard, SeedCardCol, SeedNoteCard)
    /\ pre = db
    /\ last = NoOp
    /\ ops = 0
    /\ run = [w \in Workers |-> Idle]

\* the payload an update carries
UpdateData == [title |-> "b"]

Update(tbl, id, tenant_id, version) ==
    /\ ops < MaxOps
    /\ Finish(RepoUpdate(db, tbl, id, tenant_id, UpdateData, version),
              [NoOp EXCEPT !.op = "update", !.tbl = tbl, !.tenant_id = tenant_id,
                           !.id = id, !.version = version])

Delete(tbl, id, tenant_id, version, hard_delete) ==
    /\ ops < MaxOps
    /\ Finish(RepoDelete(db, tbl, id, tenant_id, version, hard_delete),
              [NoOp EXCEPT !.op = "delete", !.tbl = tbl, !.tenant_id = tenant_id,
                           !.id = id, !.version = version, !.hard = hard_delete])

\* the payloads a create carries: the parent pointers and position of the model
CreateData(tbl) ==
    CASE tbl = "workspaces" -> {[title |-> "a"]}
      [] tbl = "boards" ->
            {[title |-> "a", workspace_id |-> w] : w \in WorkspaceIds \cup {NoWorkspace}}
      [] tbl = "columns" ->
            {[title |-> "a", board_id |-> b, position |-> p] :
                b \in BoardIds, p \in 0..NumCards}
      [] tbl = "cards" ->
            {[title |-> "a", board_id |-> b, column_id |-> c, position |-> p] :
                b \in BoardIds, c \in ColumnIds, p \in 0..NumCards}
      [] OTHER -> {[title |-> "a", card_id |-> k] : k \in CardIds}

\* the id generate_ulid gives the row of the next call: never used before
FreshId(tbl) == Cardinality(IdsOf(tbl)) + ops + 1

\* the ids a call can name: the seeded rows and the rows created since
ArgIds(tbl) == 1..(Cardinality(IdsOf(tbl)) + MaxOps - 1)

Create(tbl, data, tenant_id) ==
    /\ ops < MaxOps
    /\ Finish(RepoCreate(db, tbl, FreshId(tbl), data, tenant_id),
              [NoOp EXCEPT !.op = "create", !.tbl = tbl, !.tenant_id = tenant_id,
                           !.id = FreshId(tbl)])

Next ==
    \/ NextOrder
    \/ \E tbl \in Tables, t \in Tenants, v \in VersionArgs :
          \E id \in ArgIds(tbl) : Update(tbl, id, t, v)
    \/ \E tbl \in Tables, t \in Tenants, v \in VersionArgs, h \in BOOLEAN :
          \E id \in ArgIds(tbl) : Delete(tbl, id, t, v, h)
    \/ \E tbl \in Tables, t \in Tenants :
          \E data \in CreateData(tbl) : Create(tbl, data, t)

Spec == Init /\ [][Next]_vars

\* ------------------------------------------- concurrent requests, by commit
\* the update() calls a reorder / move still has to make: table, id, field, value
PositionWrites(tbl, positions) ==
    [i \in 1..Len(positions) |->
        [tbl |-> tbl, id |-> positions[i][1], field |-> "position",
         value |-> positions[i][2]]]

\* what reorder_card / reorder_column decide from the list they read: the return
\* value so far and the updates to make
ReorderPlan(d, tbl, items, item_id, new_position) ==
    IF items = <<>> \/ item_id \notin Range(items) THEN [ok |-> FALSE, writes |-> <<>>]
    ELSE LET old_position == d[tbl][item_id].position
             clamped == ClampReorder(new_position, Len(items))
         IN IF IsNoOp(old_position, clamped) THEN [ok |-> TRUE, writes |-> <<>>]
            ELSE [ok |-> TRUE,
                  writes |-> PositionWrites(tbl,
                      NewPositions(d[tbl], items, item_id, old_position, clamped))]

\* what move_card decides from the card and the target list it read: the target
\* column's positions, then the card's column_id
MovePlan(d, card_id, target_column_id, target_position, tenant_id, target_cards) ==
    IF GetById(d, "cards", card_id, tenant_id, FALSE) = <<>>
    THEN [ok |-> FALSE, writes |-> <<>>]
    ELSE IF d.cards[card_id].column_id = target_column_id
    THEN IF target_position # NoneArg
         THEN ReorderPlan(d, "cards", target_cards, card_id, target_position[1])
         ELSE [ok |-> TRUE, writes |-> <<>>]
    ELSE [ok |-> TRUE,
          writes |-> PositionWrites("cards",
                         TargetPositions(target_cards, card_id,
                             MoveTarget(target_position, Len(target_cards))))
                     \o <<[tbl |-> "cards", id |-> card_id, field |-> "column_id",
                           value |-> target_column_id]>>]

\* request w can make its call: the requests start in the order of their numbers
CanBegin(w) ==
    /\ ops < MaxOps
    /\ run[w].pc = "idle"
    /\ \A v \in Workers : v < w => run[v].pc # "idle"

\* a request starts a call: it reads, decides, and returns at once when there is
\* nothing to write
Begin(w, call, plan) ==
    /\ run' = [run EXCEPT ![w] =
                  [pc |-> IF plan.writes = <<>> THEN "done" ELSE "writing",
                   call |-> [call EXCEPT !.ok = plan.ok],
                   start |-> db, writes |-> plan.writes, fault |-> FALSE]]
    /\ ops' = ops + 1
    /\ UNCHANGED <<db, pre, last>>

BeginReorderCard(w, card_id, column_id, new_position, tenant_id) ==
    /\ CanBegin(w)
    /\ \E cards \in ListByColumn(db, column_id, tenant_id) :
        Begin(w, [NoOp EXCEPT !.op = "reorder_card", !.tbl = "cards",
                              !.tenant_id = tenant_id, !.id = card_id,
                              !.target = column_id, !.pos = <<new_position>>],
              ReorderPlan(db, "cards", cards, card_id, new_position))

BeginReorderColumn(w, column_id, board_id, new_position, tenant_id) ==
    /\ CanBegin(w)
    /\ \E columns \in ListByBoard(db, board_id, tenant_id) :
        Begin(w, [NoOp EXCEPT !.op = "reorder_column", !.tbl = "columns",
                              !.tenant_id = tenant_id, !.id = column_id,
                              !.target = board_id, !.pos = <<new_position>>],
              ReorderPlan(db, "columns", columns, column_id, new_position))

BeginMoveCard(w, card_id, target_column_id, target_position, tenant_id) ==
    /\ CanBegin(w)
    /\ \E target_cards \in ListByColumn(db, target_column_id, tenant_id) :
        Begin(w, [NoOp EXCEPT !.op = "move_card", !.tbl = "cards",
                              !.tenant_id = tenant_id, !.id = card_id,
                              !.target = target_column_id, !.pos = target_position],
              MovePlan(db, card_id, target_column_id, target_position, tenant_id,
                       target_cards))

\* the next update() of a request in progress: executed and committed; the
\* column_id update of a move fails on the foreign key when the column row is
\* gone, and the call then returns False
Write(w) ==
    /\ run[w].pc = "writing"
    /\ LET h == Head(run[w].writes)
           rest == Tail(run[w].writes)
           fk == h.field = "column_id" => ColumnFkHolds(db, h.value)
           st == BaseUpdate(Start(db), h.tbl, h.id, run[w].call.tenant_id,
                            (h.field :> h.value), NoneArg)
       IN /\ db' = IF fk THEN st.db ELSE db
          /\ run' = [run EXCEPT
                        ![w].pc = IF fk /\ rest # <<>> THEN "writing" ELSE "done",
                        ![w].writes = IF fk THEN rest ELSE @,
                        ![w].call.ok = fk,
                        ![w].call.touched = IF fk THEN @ \cup st.touched ELSE @]
    /\ UNCHANGED <<pre, last, ops>>

\* the next update() raises (a storage error): the except clause rolls back what
\* is not yet committed, which is nothing, and the call returns False
WriteFails(w) ==
    /\ run[w].pc = "writing"
    /\ run' = [run EXCEPT ![w].pc = "done", ![w].call.ok = FALSE, ![w].fault = TRUE]
    /\ UNCHANGED <<db, pre, last, ops>>

\* the layout the concurrent requests start from: one tenant, every column in
\* board 1, all cards but the last in column 1 and the last in column 2
StepCardCol == [k \in CardIds |-> IF k < NumCards THEN 1 ELSE 2]
StepTenant == "t1"
StepPos == 0..(NumCards - 1)

InitMoves ==
    /\ db = Seed([b \in BoardIds |-> StepTenant], [c \in ColumnIds |-> 1],
                 StepCardCol, <<>>)
    /\ pre = db
    /\ last = NoOp
    /\ ops = 0
    /\ run = [w \in Workers |-> Idle]

NextMoves ==
    \/ \E w \in Workers, k \in CardIds, c \in ColumnIds, p \in StepPos :
          BeginReorderCard(w, k, c, p, StepTenant)
    \/ \E w \in Workers, c \in ColumnIds, b \in BoardIds, p \in StepPos :
          BeginReorderColumn(w, c, b, p, StepTenant)
    \/ \E w \in Workers, k \in CardIds, c \in ColumnIds :
          \E p \in {NoneArg} \cup {<<q>> : q \in StepPos} :
              BeginMoveCard(w, k, c, p, StepTenant)
    \/ \E w \in Workers : Write(w)
    \/ \E w \in Workers : WriteFails(w)

SpecMoves == InitMoves /\ [][NextMoves]_vars

\* the tables whose repository overrides delete with a cascade
CascadeTables == {"boards", "columns", "cards"}

\* what a delete reads before its statements: the cascading deletes fetch the row
\* and compare the version, BaseRepository.delete reads nothing
DeleteGuard(d, tbl, id, tenant_id, version) ==
    tbl \in CascadeTables => CascadeGuard(d, tbl, id, tenant_id, version)

\* the statements of delete() of the repository of table tbl, committed together
RepoStatements(d, tbl, id, tenant_id, version, hard_delete) ==
    CASE tbl = "cards" -> CardCascade(d, id, tenant_id, version, hard_delete)
      [] tbl = "columns" -> ColumnCascade(d, id, tenant_id, version, hard_delete)
      [] tbl = "boards" -> BoardCascade(d, id, tenant_id, version, hard_delete)
      [] OTHER -> BaseDelete(d, tbl, id, tenant_id, version, hard_delete)

\* a request starts a delete: the guard reads; False at once when they fail
BeginDelete(w, tbl, id, tenant_id, version, hard_delete) ==
    /\ CanBegin(w)
    /\ run' = [run EXCEPT ![w] =
                  [pc |-> IF DeleteGuard(db, tbl, id, tenant_id, version)
                          THEN "deleting" ELSE "done",
                   call |-> [NoOp EXCEPT !.op = "delete", !.tbl = tbl,
                                         !.tenant_id = tenant_id, !.id = id,
                                         !.version = version, !.hard = hard_delete],
                   start |-> db, writes |-> <<>>, fault |-> FALSE]]
    /\ ops' = ops + 1
    /\ UNCHANGED <<db, pre, last>>

\* the statements of the delete run against the rows committed by then (READ
\* COMMITTED) and are committed in one commit; the call returns rowcount > 0 of
\* the statement on the row itself
CommitDelete(w) ==
    /\ run[w].pc = "deleting"
    /\ LET c == run[w].call
           st == RepoStatements(db, c.tbl, c.id, c.tenant_id, c.version, c.hard)
       IN /\ db' = st.db
          /\ run' = [run EXCEPT ![w].pc = "done",
                                ![w].call.ok = st.ok,
                                ![w].call.touched = st.touched,
                                ![w].call.stamped = st.stamped,
                                ![w].call.removed = st.removed]
    /\ UNCHANGED <<pre, last, ops>>

\* one of the statements, or the commit, raises (a storage error): the
\* transaction is rolled back as a whole and the call fails
DeleteFails(w) ==
    /\ run[w].pc = "deleting"
    /\ run' = [run EXCEPT ![w].pc = "done", ![w].call.ok = FALSE, ![w].fault = TRUE]
    /\ UNCHANGED <<db, pre, last, ops>>

\* a request starts an update: the UPDATE statement is executed and committed
\* (one conditional write); None at once when no row matched, and the statement
\* raises on a table without updated_at
BeginUpdate(w, tbl, id, tenant_id, version) ==
    /\ CanBegin(w)
    /\ LET st == BaseUpdate(Start(db), tbl, id, tenant_id, UpdateData, version)
       IN /\ db' = st.db
          /\ run' = [run EXCEPT ![w] =
                        [pc |-> IF st.touched = {} THEN "done" ELSE "fetching",
                         call |-> [NoOp EXCEPT !.op = "update", !.tbl = tbl,
                                               !.tenant_id = tenant_id, !.id = id,
                                               !.version = version,
                                               !.touched = st.touched],
                         start |-> db, writes |-> <<>>,
                         fault |-> ~HasUpdatedAt(tbl)]]
    /\ ops' = ops + 1
    /\ UNCHANGED <<pre, last>>

\* the update returns what get_by_id then finds: the entity, or None
FetchUpdate(w) ==
    /\ run[w].pc = "fetching"
    /\ run' = [run EXCEPT
                  ![w].pc = "done",
                  ![w].call.ok = GetById(db, run[w].call.tbl, run[w].call.id,
                                         run[w].call.tenant_id, FALSE) # <<>>]
    /\ UNCHANGED <<db, pre, last, ops>>

\* an exception of the call reaches the caller: create re-raises, update and
\* BaseRepository.delete have no handler; reorder, move and the cascading
\* deletes catch every Exception, roll back and return False
Raises(op, tbl) ==
    \/ op \in {"create", "update"}
    \/ op = "delete" /\ tbl \notin CascadeTables

\* what the caller of a returned request gets
Outcome(r) ==
    IF r.fault /\ Raises(r.call.op, r.call.tbl) THEN "error"
    ELSE IF r.call.ok THEN "true" ELSE "false"

NextCascade ==
    \/ \E w \in Workers, tbl \in Tables, t \in Tenants, v \in VersionArgs, h \in BOOLEAN :
          \E id \in IdsOf(tbl) : BeginDelete(w, tbl, id, t, v, h)
    \/ \E w \in Workers : CommitDelete(w)
    \/ \E w \in Workers : DeleteFails(w)
    \/ \E w \in Workers, tbl \in Tables, t \in Tenants, v \in VersionArgs :
          \E id \in IdsOf(tbl) : BeginUpdate(w, tbl, id, t, v)
    \/ \E w \in Workers : FetchUpdate(w)

SpecCascade == Init /\ [][NextCascade]_vars

\* ------------------------------------------------- entity model methods
\* the tables whose model derives from BaseModel (Attachment derives from Base)
ModelTables == Tables \ {"attachments"}

\* BaseModel.increment_version
IncrementVersion(row) == [row EXCEPT !.version = @ + 1]

\* BaseModel.soft_delete: deleted_at = now, then increment_version
SoftDelete(row) == IncrementVersion([row EXCEPT !.deleted_at = SET])

\* mutant: restore clears deleted_at without touching the version
RestoreNoBump(row) == [row EXCEPT !.deleted_at = NULL]

\* BaseModel.restore: deleted_at = None, then increment_version
Restore(row) == IncrementVersion([row EXCEPT !.deleted_at = NULL])

\* BaseModel.is_deleted
IsDeleted(row) == row.deleted_at # NULL

\* a method call on the entity loaded from row id of table tbl
EntityCall(op, tbl, id, row) ==
    /\ ops < MaxOps
    /\ Finish([Start(db) EXCEPT !.db[tbl][id] = row, !.ok = TRUE],
              [NoOp EXCEPT !.op = op, !.tbl = tbl, !.id = id,
                           !.tenant_id = db[tbl][id].tenant_id])

EntitySoftDelete(tbl, id) == EntityCall("soft_delete", tbl, id, SoftDelete(db[tbl][id]))

EntityRestore(tbl, id) == EntityCall("restore", tbl, id, Restore(db[tbl][id]))

NextEntity ==
    \/ \E tbl \in ModelTables : \E id \in IdsOf(tbl) : EntitySoftDelete(tbl, id)
    \/ \E tbl \in ModelTables : \E id \in IdsOf(tbl) : EntityRestore(tbl, id)

SpecEntity == Init /\ [][NextEntity]_vars

\* ------------------------------------------------------------- properties
\* the sibling set of a parent: the tenant's non-deleted rows pointing at it
ParentField(tbl) == IF tbl = "cards" THEN "column_id" ELSE "board_id"

SiblingsOf(d, tbl, parent_id, tenant_id) ==
    {x \in DOMAIN d[tbl] :
        /\ d[tbl][x][ParentField(tbl)] = parent_id
        /\ d[tbl][x].tenant_id = tenant_id
        /\ d[tbl][x].deleted_at = NULL}

Dense(d, tbl, S) == {d[tbl][x].position : x \in S} = 0..(Cardinality(S) - 1)

AllDense(d) ==
    \A t \in Tenants :
        /\ \A c \in ColumnIds : Dense(d, "cards", SiblingsOf(d, "cards", c, t))
        /\ \A b \in BoardIds : Dense(d, "columns", SiblingsOf(d, "columns", b, t))

Clamped(x, lo, hi) == IF x < lo THEN lo ELSE IF x > hi THEN hi ELSE x

IsReorder == last.op \in {"reorder_card", "reorder_column"}
IsOrdering == last.op \in {"reorder_card", "reorder_column", "move_card"}

\* the siblings the last reorder / move call named, before the call
PreSiblings == SiblingsOf(pre, last.tbl, last.target, last.tenant_id)

\* the last call was a move_card of a live card into another column
IsCrossMove ==
    /\ last.op = "move_card"
    /\ last.id \in DOMAIN pre.cards
    /\ pre.cards[last.id].tenant_id = last.tenant_id
    /\ pre.cards[last.id].deleted_at = NULL
    /\ pre.cards[last.id].column_id # last.target

\* C1: from dense sibling sets, after any sequence of reorder_card,
\* reorder_column and move_card calls the positions of the non-deleted members
\* of every sibling set are exactly 0..n-1.
C1_DenseOrdering == AllDense(db)

\* C2: in a dense sibling set a successful reorder of the item at position p to
\* the clamped position q puts the item at q, moves the items of (p,q] left by 1
\* when p < q and the items of [q,p) right by 1 when p > q, and leaves every
\* other sibling where it was.
C2_DirectionalShift ==
    (IsReorder /\ last.ok /\ Dense(pre, last.tbl, PreSiblings)) =>
        LET p == pre[last.tbl][last.id].position
            q == Clamped(last.pos[1], 0, Cardinality(PreSiblings) - 1)
        IN /\ db[last.tbl][last.id].position = q
           /\ \A x \in PreSiblings \ {last.id} :
                 LET px == pre[last.tbl][x].position
                 IN db[last.tbl][x].position =
                        IF p < q /\ p < px /\ px <= q THEN px - 1
                        ELSE IF p > q /\ q <= px /\ px < p THEN px + 1
                        ELSE px

\* Scenario A: four cards at 0..3, the card at 3 reordered to 1
C2_Witness ==
    /\ last.op = "reorder_card" /\ last.ok
    /\ Cardinality(PreSiblings) = 4
    /\ Dense(pre, "cards", PreSiblings)
    /\ pre.cards[last.id].position = 3
    /\ last.pos = <<1>>
    /\ \A x \in PreSiblings :
          db.cards[x].position =
              IF x = last.id THEN 1
              ELSE IF pre.cards[x].position = 0 THEN 0
              ELSE pre.cards[x].position + 1

\* C3: a reorder whose clamped target is the item's current position returns
\* success, writes no row and leaves every row as it was.
C3_NoOpReorder ==
    (/\ IsReorder
     /\ last.id \in PreSiblings
     /\ Clamped(last.pos[1], 0, Cardinality(PreSiblings) - 1)
            = pre[last.tbl][last.id].position) =>
        /\ last.ok
        /\ last.touched = {}
        /\ db = pre

\* the last item of a set of three or more reordered past the end
C3_Witness ==
    /\ IsReorder /\ last.ok
    /\ last.id \in PreSiblings
    /\ Cardinality(PreSiblings) >= 3
    /\ pre[last.tbl][last.id].position = Cardinality(PreSiblings) - 1
    /\ last.pos[1] > pre[last.tbl][last.id].position
    /\ last.touched = {}

\* C4: after a successful move of a card at position p out of column X into
\* another column, every remaining non-deleted card of X that was after p is
\* one position lower.
C4_SourceDensified ==
    (IsCrossMove /\ last.ok) =>
        LET X == pre.cards[last.id].column_id
            p == pre.cards[last.id].position
        IN \A x \in SiblingsOf(pre, "cards", X, last.tenant_id) \ {last.id} :
              pre.cards[x].position > p =>
                  db.cards[x].position = pre.cards[x].position - 1

\* C5: after a successful move into another (dense) column at the clamped index
\* t, the cards of that column that were at or after t are one position higher,
\* the cards before t keep their position, and the moved card is at t in the
\* target column.
C5_TargetShift ==
    (/\ IsCrossMove /\ last.ok /\ last.pos # NoneArg
     /\ Dense(pre, "cards", PreSiblings)) =>
        LET t == Clamped(last.pos[1], 0, Cardinality(PreSiblings))
        IN /\ db.cards[last.id].position = t
           /\ db.cards[last.id].column_id = last.target
           /\ \A x \in PreSiblings :
                 db.cards[x].position =
                     IF pre.cards[x].position >= t
                     THEN pre.cards[x].position + 1
                     ELSE pre.cards[x].position

\* C6: a successful move into another column without a target index leaves the
\* card in the target column at position target_count, the number of
\* non-deleted cards the target held before.
C6_MoveAppend ==
    (IsCrossMove /\ last.ok /\ last.pos = NoneArg) =>
        /\ db.cards[last.id].position = Cardinality(PreSiblings)
        /\ db.cards[last.id].column_id = last.target

\* an append into a column that already holds two cards
C6_Witness ==
    /\ IsCrossMove /\ last.ok /\ last.pos = NoneArg
    /\ Cardinality(PreSiblings) = 2
    /\ db.cards[last.id].position = 2
    /\ db.cards[last.id].column_id = last.target

\* C9: a successful reorder or move adds exactly 1 to the version of every row
\* whose position changed and leaves the version of the others unchanged.
C9_VersionPerShift ==
    (IsOrdering /\ last.ok) =>
        \A x \in DOMAIN pre[last.tbl] :
            db[last.tbl][x].version =
                IF db[last.tbl][x].position # pre[last.tbl][x].position
                THEN pre[last.tbl][x].version + 1
                ELSE pre[last.tbl][x].version

IsCrud == last.op \in {"update", "delete"}

C8_VersionBump ==
    (/\ IsCrud /\ ~last.hard /\ last.ok) =>
        db[last.tbl][last.id].version = pre[last.tbl][last.id].version + 1

\* C10: after a successful soft delete of a live board, the board, each of its
\* live columns and each of its live cards has deleted_at set and a version 1
\* higher, and none of them is returned by the default get_by_id / list.
C10_BoardSoftDelete ==
    (/\ last.op = "delete" /\ last.tbl = "boards" /\ ~last.hard /\ last.ok) =>
        LET t == last.tenant_id
            rows == {<<"boards", last.id>>}
                    \cup {<<"columns", c>> : c \in SiblingsOf(pre, "columns", last.id, t)}
                    \cup {<<"cards", k>> : k \in Dependents(pre, "cards", "board_id",
                                                            last.id, t, TRUE)}
        IN \A r \in rows :
              /\ db[r[1]][r[2]].deleted_at = SET
              /\ db[r[1]][r[2]].version = pre[r[1]][r[2]].version + 1
              /\ GetById(db, r[1], r[2], t, FALSE) = <<>>
              /\ r[2] \notin Selected(db, r[1], t, FALSE, <<>>)

\* C11: a hard delete of a live column (by its tenant, with no version or the
\* stored one) returns true and removes the column and every card of the
\* column, so that get_by_id finds none of them even with include_deleted.
C11_ColumnHardDelete ==
    (/\ last.op = "delete" /\ last.tbl = "columns" /\ last.hard
     /\ CascadeGuard(pre, "columns", last.id, last.tenant_id, last.version)) =>
        /\ last.ok
        /\ GetById(db, "columns", last.id, last.tenant_id, TRUE) = <<>>
        /\ \A k \in Dependents(pre, "cards", "column_id", last.id, last.tenant_id, FALSE) :
              GetById(db, "cards", k, last.tenant_id, TRUE) = <<>>


\* the ownership edges: parent table, dependent table, parent pointer
Edges ==
    {<<"workspaces", "boards", "workspace_id">>, <<"boards", "columns", "board_id">>,
     <<"boards", "cards", "board_id">>, <<"columns", "cards", "column_id">>,
     <<"cards", "comments", "card_id">>, <<"cards", "attachments", "card_id">>}

\* the dependent x of edge e has no parent (a NULL workspace_id)
Unowned(d, e, x) == e[3] = "workspace_id" /\ d[e[2]][x][e[3]] = NoWorkspace

\* C12: in every state reached by create, update, reorder, move and delete, for
\* every ownership edge each dependent row's parent row is stored, and a
\* non-deleted dependent's parent is not soft-deleted.
C12_ParentDependent ==
    \A e \in Edges : \A x \in DOMAIN db[e[2]] :
        ~Unowned(db, e, x) =>
            /\ db[e[2]][x][e[3]] \in DOMAIN db[e[1]]
            /\ db[e[2]][x].deleted_at = NULL =>
                   db[e[1]][db[e[2]][x][e[3]]].deleted_at = NULL

\* the rows below row id of table tbl in the ownership hierarchy
DescendantsOf(d, tbl, id) ==
    LET boards == IF tbl = "boards" THEN {id}
                  ELSE IF tbl = "workspaces"
                  THEN {b \in DOMAIN d.boards : d.boards[b].workspace_id = id} ELSE {}
        columns == IF tbl = "columns" THEN {id}
                   ELSE {c \in DOMAIN d.columns : d.columns[c].board_id \in boards}
        cards == IF tbl = "cards" THEN {id}
                 ELSE {k \in DOMAIN d.cards :
                          d.cards[k].column_id \in columns \/ d.cards[k].board_id \in boards}
    IN ({<<"boards", x>> : x \in boards} \cup {<<"columns", x>> : x \in columns}
        \cup {<<"cards", x>> : x \in cards}
        \cup {<<"comments", x>> : x \in {m \in DOMAIN d.comments :
                                            d.comments[m].card_id \in cards}}
        \cup {<<"attachments", x>> : x \in {a \in DOMAIN d.attachments :
                                               d.attachments[a].card_id \in cards}})
       \ {<<tbl, id>>}

IsSoftCascade ==
    last.op = "delete" /\ ~last.hard /\ last.tbl \in {"boards", "columns", "cards"}

\* C13: a soft delete of a board, column or card leaves every descendant that
\* was already soft-deleted exactly as it was: same deleted_at, same version,
\* not written.
C13_CascadeSkipsDeleted ==
    IsSoftCascade =>
        \A r \in DescendantsOf(pre, last.tbl, last.id) :
            pre[r[1]][r[2]].deleted_at = SET =>
                /\ db[r[1]][r[2]] = pre[r[1]][r[2]]
                /\ r \notin last.touched

\* a successful soft cascade that stamped one descendant and passed over
\* another, soft-deleted earlier at version 2
C13_Witness ==
    /\ IsSoftCascade /\ last.ok
    /\ \E r \in DescendantsOf(pre, last.tbl, last.id) :
          /\ pre[r[1]][r[2]].deleted_at = SET
          /\ pre[r[1]][r[2]].tenant_id = last.tenant_id
          /\ db[r[1]][r[2]].version = 2
    /\ \E r \in DescendantsOf(pre, last.tbl, last.id) : r \in last.stamped

\* C18: a move_card whose target column is not a stored, non-deleted column of
\* the tenant returns failure and writes nothing: no row changes, so the card
\* keeps its position, column_id and version.
C18_MoveMissingTarget ==
    (/\ last.op = "move_card"
     /\ GetById(pre, "columns", last.target, last.tenant_id, FALSE) = <<>>) =>
        /\ ~last.ok
        /\ last.touched = {}
        /\ db = pre

\* the item the last reorder / move named is not a stored, non-deleted row of
\* the tenant or, for a reorder, not in the named container
ItemMissing ==
    IF IsReorder THEN last.id \notin PreSiblings
    ELSE GetById(pre, "cards", last.id, last.tenant_id, FALSE) = <<>>

\* C19: a reorder_card, reorder_column or move_card naming an item that does not
\* exist, is soft-deleted, belongs to another tenant or (reorder) is not in the
\* named container returns false and writes no row.
C19_MissingItem ==
    (IsOrdering /\ ItemMissing) =>
        /\ ~last.ok
        /\ last.touched = {}
        /\ db = pre

\* a reorder naming a soft-deleted card of the named column, which still holds
\* a live card
C19_Witness ==
    /\ last.op = "reorder_card" /\ ~last.ok
    /\ last.id \in DOMAIN pre.cards
    /\ pre.cards[last.id].deleted_at = SET
    /\ pre.cards[last.id].tenant_id = last.tenant_id
    /\ pre.cards[last.id].column_id = last.target
    /\ PreSiblings # {}
    /\ db = pre

\* C20: in every reachable state each card's column_id names a stored column
\* whose board_id is the card's board_id.
C20_CardBoardConsistent ==
    \A k \in DOMAIN db.cards :
        /\ db.cards[k].column_id \in DOMAIN db.columns
        /\ db.columns[db.cards[k].column_id].board_id = db.cards[k].board_id

\* request w has returned
Returned(w) == run[w].pc = "done"

\* C15: when a write of a reorder_card / reorder_column fails part-way, the
\* call returns failure and every row of the table has the position it had
\* when the call started (no other call has run).
C15_ReorderAllOrNothing ==
    \A w \in Workers :
        (/\ Returned(w) /\ run[w].fault /\ ops = 1
         /\ run[w].call.op \in {"reorder_card", "reorder_column"}) =>
            /\ ~run[w].call.ok
            /\ \A x \in DOMAIN run[w].start[run[w].call.tbl] :
                  db[run[w].call.tbl][x].position =
                      run[w].start[run[w].call.tbl][x].position

RECURSIVE AfterWrites(_, _, _)
\* the store once the updates writes have all been made
AfterWrites(d, tenant_id, writes) ==
    IF writes = <<>> THEN d
    ELSE AfterWrites(BaseUpdate(Start(d), writes[1].tbl, writes[1].id, tenant_id,
                                (writes[1].field :> writes[1].value), NoneArg).db,
                     tenant_id, Tail(writes))

\* C16: while a move_card is in progress (and no other call has run) the
\* committed store, which any reader sees, is either the store the move started
\* from or the store the move ends with.
C16_MoveAtomic ==
    \A w \in Workers :
        (run[w].call.op = "move_card" /\ run[w].pc = "writing" /\ ops = 1) =>
            \/ db = run[w].start
            \/ db = AfterWrites(db, run[w].call.tenant_id, run[w].writes)

\* C17: when two successful reorders of the same container (dense when they
\* started) have both returned, whatever the interleaving of their reads and
\* writes, the container's positions are exactly 0..n-1.
C17_ConcurrentDense ==
    \A v, w \in Workers :
        (/\ v # w /\ Returned(v) /\ Returned(w)
         /\ run[v].call.op \in {"reorder_card", "reorder_column"}
         /\ run[w].call.op = run[v].call.op
         /\ run[w].call.target = run[v].call.target
         /\ run[w].call.tenant_id = run[v].call.tenant_id
         /\ run[v].call.ok /\ run[w].call.ok) =>
            Dense(db, run[v].call.tbl,
                  SiblingsOf(db, run[v].call.tbl, run[v].call.target,
                             run[v].call.tenant_id))

\* C14: a board, column or card delete that returns failure has committed
\* nothing: it stamped, removed and wrote no row, of the parent or of its
\* dependents; so no state with the dependents deleted and the parent alive is
\* committed.
C14_CascadeAtomic ==
    \A w \in Workers :
        (/\ Returned(w) /\ run[w].call.op = "delete"
         /\ run[w].call.tbl \in CascadeTables /\ ~run[w].call.ok) =>
            /\ run[w].call.touched = {}
            /\ run[w].call.stamped = {}
            /\ run[w].call.removed = {}

\* the rows the last call wrote, stamped or removed
Written == last.touched \cup last.stamped \cup last.removed

\* C21: a call made with tenant id t writes, stamps and removes only rows whose
\* tenant_id is t, and get_by_id / list with tenant id t return only rows whose
\* tenant_id is t, after every sequence of calls by two tenants.
C21_TenantIsolation ==
    /\ \A r \in Written : pre[r[1]][r[2]].tenant_id = last.tenant_id
    /\ \A t \in Tenants, tbl \in Tables :
          /\ \A id \in Selected(db, tbl, t, TRUE, <<>>) : db[tbl][id].tenant_id = t
          /\ \A id \in DOMAIN db[tbl] :
                GetById(db, tbl, id, t, TRUE) # <<>> => db[tbl][id].tenant_id = t

\* C22: a create (of a card or column, with whatever position) or a delete
\* (soft or hard) made when every sibling set is dense leaves every sibling
\* set dense: the non-deleted members' positions are exactly 0..n-1.
C22_DenseAfterCreateDelete ==
    (last.op \in {"create", "delete"} /\ AllDense(pre)) => AllDense(db)

\* the conditional write of request w on the row it names took effect
Applied(w) ==
    <<run[w].call.tbl, run[w].call.id>> \in run[w].call.touched \cup run[w].call.removed

\* request w made a single-row conditional write naming version n: a base
\* update, or a delete of a repository that does not cascade
IsConditional(w, n) ==
    /\ \/ run[w].call.op = "update"
       \/ run[w].call.op = "delete" /\ run[w].call.tbl \notin CascadeTables
    /\ run[w].call.version = <<n>>

\* requests v and w raced on one row that was at version n when the first began
Raced(v, w, n) ==
    /\ v < w /\ Returned(v) /\ Returned(w)
    /\ IsConditional(v, n) /\ IsConditional(w, n)
    /\ run[w].call.tbl = run[v].call.tbl /\ run[w].call.id = run[v].call.id
    /\ run[v].start[run[v].call.tbl][run[v].call.id].version = n

C24_CascadeDeleteRace ==
    \A v, w \in Workers, n \in 1..MaxVersion :
        (/\ v # w /\ Returned(v) /\ Returned(w)
         /\ run[v].call.op = "delete" /\ run[v].call.tbl \in CascadeTables
         /\ run[v].call.version = <<n>>
         /\ CascadeGuard(run[v].start, run[v].call.tbl, run[v].call.id,
                         run[v].call.tenant_id, run[v].call.version)
         /\ ~run[v].fault
         /\ run[w].call.op = "update" /\ run[w].call.version = <<n>>
         /\ run[w].call.tbl = run[v].call.tbl /\ run[w].call.id = run[v].call.id
         /\ run[w].start = run[v].start /\ Applied(w)) =>
            /\ ~run[v].call.ok
            /\ run[v].call.touched = {}
            /\ run[v].call.stamped = {}
            /\ run[v].call.removed = {}

\* the rows of table tbl among the pairs S that get_by_id of tenant t found
\* before the last call
FoundBefore(S, tbl, t, include_deleted) ==
    {r \in S : r[1] = tbl /\ GetById(pre, tbl, r[2], t, include_deleted) # <<>>}

\* C25: a soft-deleted row is not returned by get_by_id or list and not
\* counted by count with include_deleted = false, and is returned and counted
\* by them with include_deleted = true; a row removed by a hard delete is
\* returned and counted by neither.
C25_SoftDeleteVisibility ==
    \A t \in Tenants, tbl \in Tables :
        /\ \A id \in DOMAIN db[tbl] :
              (db[tbl][id].tenant_id = t /\ db[tbl][id].deleted_at = SET) =>
                  /\ GetById(db, tbl, id, t, FALSE) = <<>>
                  /\ GetById(db, tbl, id, t, TRUE) = <<db[tbl][id]>>
                  /\ \A l \in List(db, tbl, t, ListLimit, FALSE, "version", <<>>) :
                        id \notin Range(l)
                  /\ \A l \in List(db, tbl, t, ListLimit, TRUE, "version", <<>>) :
                        id \in Range(l)
        /\ \A r \in last.removed :
              r[1] = tbl =>
                  /\ GetById(db, tbl, r[2], t, TRUE) = <<>>
                  /\ \A l \in List(db, tbl, t, ListLimit, TRUE, "version", <<>>) :
                        r[2] \notin Range(l)
        /\ last.op = "delete" =>
              /\ Count(db, tbl, t, FALSE, <<>>) =
                     Count(pre, tbl, t, FALSE, <<>>) -
                     Cardinality(FoundBefore(last.stamped \cup last.removed, tbl, t, FALSE))
              /\ Count(db, tbl, t, TRUE, <<>>) =
                     Count(pre, tbl, t, TRUE, <<>>) -
                     Cardinality(FoundBefore(last.removed, tbl, t, TRUE))

\* after a soft delete, a hard delete removed a soft-deleted row while
\* soft-deleted cards are still stored
C25_Witness ==
    /\ last.op = "delete" /\ last.ok /\ last.hard /\ last.removed # {}
    /\ \E r \in last.removed : pre[r[1]][r[2]].deleted_at = SET
    /\ \E t \in Tenants :
          Count(db, "cards", t, FALSE, <<>>) < Count(db, "cards", t, TRUE, <<>>)

\* C26: a call during which a storage error occurred ends with an error
\* outcome, which the caller can tell from the False / None of a missing row
\* or a stale version.
C26_StorageErrorSurfaces ==
    \A w \in Workers :
        (Returned(w) /\ run[w].fault) => Outcome(run[w]) = "error"

\* C27: a successful reorder returns, with the success flag, the clamped
\* position it applied, and that position is the item's stored position.
C27_ReorderReturnsPosition ==
    (IsReorder /\ last.ok /\ last.id \in PreSiblings) =>
        /\ ReorderResult(last.ok).success
        /\ "position" \in DOMAIN ReorderResult(last.ok)
        /\ ReorderResult(last.ok).position = db[last.tbl][last.id].position

\* C28: a successful reorder of an item of a sibling set of size n leaves the
\* item at max(0, min(target, n - 1)): at n - 1 for every target >= n and at 0
\* for every target <= 0.
C28_ReorderClamp ==
    (IsReorder /\ last.ok /\ last.id \in PreSiblings) =>
        LET n == Cardinality(PreSiblings)
            p == db[last.tbl][last.id].position
        IN /\ p = Max(0, Min(last.pos[1], n - 1))
           /\ last.pos[1] >= n => p = n - 1
           /\ last.pos[1] <= 0 => p = 0

\* the first of three or more siblings reordered to an index past the end
C28_Witness ==
    /\ IsReorder /\ last.ok /\ last.id \in PreSiblings
    /\ Cardinality(PreSiblings) >= 3
    /\ pre[last.tbl][last.id].position = 0
    /\ last.pos[1] >= Cardinality(PreSiblings)
    /\ db[last.tbl][last.id].position = Cardinality(PreSiblings) - 1

\* C29: a successful cross-column move with explicit index t into a column
\* holding target_count non-deleted cards leaves the card at
\* max(0, min(t, target_count)); with t > target_count the store is the one an
\* append (no index) gives.
C29_MoveClamp ==
    (IsCrossMove /\ last.ok /\ last.pos # NoneArg) =>
        LET target_count == Cardinality(PreSiblings)
        IN /\ db.cards[last.id].position = Max(0, Min(last.pos[1], target_count))
           /\ last.pos[1] > target_count =>
                 \E l \in ListByColumn(pre, last.target, last.tenant_id) :
                     db = Move(pre, last.id, last.target, NoneArg, last.tenant_id, l).db

\* a move to an index past the end of a column that holds two cards
C29_Witness ==
    /\ IsCrossMove /\ last.ok /\ last.pos # NoneArg
    /\ Cardinality(PreSiblings) = 2
    /\ last.pos[1] > 2
    /\ db.cards[last.id].position = 2
    /\ db.cards[last.id].column_id = last.target

\* the last call was a move_card of a live card within its column, to an index
IsSameColumnMove ==
    /\ last.op = "move_card" /\ last.pos # NoneArg
    /\ last.id \in DOMAIN pre.cards
    /\ pre.cards[last.id].tenant_id = last.tenant_id
    /\ pre.cards[last.id].deleted_at = NULL
    /\ pre.cards[last.id].column_id = last.target

\* C30: a move_card to an index within the card's own column gives the store
\* (positions and versions), the rows written and the result that
\* reorder_card with that index gives on the same state, and the card's
\* column_id is unchanged.
C30_SameColumnMoveIsReorder ==
    IsSameColumnMove =>
        /\ \E cards \in ListByColumn(pre, last.target, last.tenant_id) :
              LET st == Reorder(pre, "cards", cards, last.id, last.pos[1],
                                last.tenant_id)
              IN /\ db = st.db
                 /\ last.ok = st.ok
                 /\ last.touched = st.touched
        /\ db.cards[last.id].column_id = pre.cards[last.id].column_id

\* a move within a column of three or more cards that shifted other cards
C30_Witness ==
    /\ IsSameColumnMove /\ last.ok
    /\ Cardinality(PreSiblings) >= 3
    /\ Cardinality(last.touched) >= 3
    /\ db.cards[last.id].position # pre.cards[last.id].position

\* the element at list index i (from 0) has position i
IndexIsPosition(d, tbl, l) == \A i \in 1..Len(l) : d[tbl][l[i]].position = i - 1

\* C31: list_by_column and list_by_board return the non-deleted siblings in
\* ascending position order, position 0 first: in a dense sibling set the
\* element at list index i has position i.
C31_ListingAscending ==
    \A t \in Tenants :
        /\ \A c \in ColumnIds :
              Dense(db, "cards", SiblingsOf(db, "cards", c, t)) =>
                  \A l \in ListByColumn(db, c, t) :
                      /\ Range(l) = SiblingsOf(db, "cards", c, t)
                      /\ IndexIsPosition(db, "cards", l)
        /\ \A b \in BoardIds :
              Dense(db, "columns", SiblingsOf(db, "columns", b, t)) =>
                  \A l \in ListByBoard(db, b, t) :
                      /\ Range(l) = SiblingsOf(db, "columns", b, t)
                      /\ IndexIsPosition(db, "columns", l)

\* the sibling sets of d are those of e: same members under every parent
SameMembers(d, e) ==
    \A t \in Tenants :
        /\ \A c \in ColumnIds :
              SiblingsOf(d, "cards", c, t) = SiblingsOf(e, "cards", c, t)
        /\ \A b \in BoardIds :
              SiblingsOf(d, "columns", b, t) = SiblingsOf(e, "columns", b, t)

\* C32: a reorder_card / reorder_column made when every sibling set is dense
\* leaves every sibling set with the same members at positions that are a
\* permutation of 0..n-1; so does every sequence of such calls.
C32_ReorderKeepsDensity ==
    (IsReorder /\ AllDense(pre)) => (AllDense(db) /\ SameMembers(db, pre))

\* a reorder in a dense set of three or more that moved the item and shifted
\* at least one other
C32_Witness ==
    /\ IsReorder /\ last.ok /\ AllDense(pre) /\ AllDense(db)
    /\ Cardinality(PreSiblings) >= 3
    /\ db[last.tbl][last.id].position # pre[last.tbl][last.id].position
    /\ \E x \in PreSiblings \ {last.id} :
          db[last.tbl][x].position # pre[last.tbl][x].position

\* C33: after a successful cross-column move_card, any two cards that were
\* already in the target column are in the same position order as before.
C33_MoveKeepsTargetOrder ==
    (IsCrossMove /\ last.ok) =>
        \A x, y \in PreSiblings :
            pre.cards[x].position < pre.cards[y].position =>
                db.cards[x].position < db.cards[y].position

\* C34: an update that returns None has modified no row; in particular an
\* update of a soft-deleted row returns None and leaves the row's fields,
\* updated_at and version included, as they were.
C34_UpdateNullNoMutation ==
    (last.op = "update" /\ ~last.ok) => (db = pre /\ last.touched = {})

\* C35: a soft delete (hard_delete = False) of a row that is already
\* soft-deleted returns False and stamps and writes nothing, so the row's
\* deleted_at and version stay as they were, on every repository.
C35_SoftDeleteTwice ==
    (/\ last.op = "delete" /\ ~last.hard
     /\ last.id \in DOMAIN pre[last.tbl]
     /\ pre[last.tbl][last.id].tenant_id = last.tenant_id
     /\ pre[last.tbl][last.id].deleted_at = SET) =>
        /\ ~last.ok
        /\ last.stamped = {} /\ last.touched = {}
        /\ db[last.tbl][last.id] = pre[last.tbl][last.id]

\* no statement on a parent table precedes a statement on a table of its
\* dependents
DependentsFirst(steps) ==
    \A i, j \in 1..Len(steps) :
        i < j => ~\E e \in Edges : e[1] = steps[i].tbl /\ e[2] = steps[j].tbl

\* every dependent row of d has its parent row stored
NoOrphan(d) ==
    \A e \in Edges : \A x \in DOMAIN d[e[2]] :
        ~Unowned(d, e, x) => d[e[2]][x][e[3]] \in DOMAIN d[e[1]]

\* the last call was a successful hard delete of a card or a board
IsHardCascade ==
    /\ last.op = "delete" /\ last.hard /\ last.ok
    /\ last.tbl \in {"cards", "boards"}

\* C36: a board hard delete removes cards, then columns, then the board, and a
\* card hard delete removes comments and attachments, then the card: the
\* statements end in the store the call leaves, none on a parent table comes
\* before one on its dependents, and after each statement no dependent row is
\* stored whose parent row is gone.
C36_HardDeleteOrder ==
    IsHardCascade =>
        LET steps == HardDeleteSteps(pre, last.tbl, last.id, last.tenant_id, last.version)
        IN /\ steps[Len(steps)].st.db = db
           /\ steps[Len(steps)].st.removed = last.removed
           /\ steps[Len(steps)].tbl = last.tbl
           /\ DependentsFirst(steps)
           /\ \A i \in 1..Len(steps) : NoOrphan(steps[i].st.db)

\* a board hard delete whose three statements each removed a row
C36_Witness ==
    /\ IsHardCascade /\ last.tbl = "boards"
    /\ LET steps == HardDeleteSteps(pre, last.tbl, last.id, last.tenant_id, last.version)
       IN /\ steps[1].st.removed # {}
          /\ steps[2].st.removed # steps[1].st.removed
          /\ steps[3].st.removed # steps[2].st.removed

\* row x of table tbl is outside the container the last reorder named
OutsideContainer(tbl, x) ==
    tbl # last.tbl \/ pre[tbl][x][ParentField(tbl)] # last.target

\* C37: reorder_card on column X changes no field of a card outside X, and
\* reorder_column on board B changes no column outside B and no card: every
\* row outside the named container is stored as before and was not written.
C37_ReorderFrame ==
    IsReorder =>
        \A tbl \in Tables :
            /\ DOMAIN db[tbl] = DOMAIN pre[tbl]
            /\ \A x \in DOMAIN pre[tbl] :
                  OutsideContainer(tbl, x) =>
                      /\ db[tbl][x] = pre[tbl][x]
                      /\ <<tbl, x>> \notin Written

\* a reorder_card that shifted cards of its column while the tenant has a live
\* card in another column
C37_Witness ==
    /\ last.op = "reorder_card" /\ last.ok
    /\ Cardinality(last.touched) >= 2
    /\ \E x \in DOMAIN pre.cards :
          /\ OutsideContainer("cards", x)
          /\ pre.cards[x].tenant_id = last.tenant_id
          /\ pre.cards[x].deleted_at = NULL

\* C38: a row is created with version 1, and no create, update, delete,
\* cascade, reorder or move lowers the version of a stored row.
C38_VersionMonotonic ==
    /\ (last.op = "create" /\ last.ok) => db[last.tbl][last.id].version = 1
    /\ \A tbl \in Tables :
          \A x \in DOMAIN pre[tbl] \cap DOMAIN db[tbl] :
              db[tbl][x].version >= pre[tbl][x].version

\* a row updated from version 1 to 2 and then from 2 to 3
C38_Witness ==
    /\ last.op = "update" /\ last.ok /\ last.version = <<2>>
    /\ pre[last.tbl][last.id].version = 2
    /\ db[last.tbl][last.id].version = 3

\* the version every seeded row starts with
SeedVersion == NewRow("t1").version

\* C39: soft_delete() sets deleted_at and adds exactly 1 to the version,
\* restore() clears deleted_at and adds exactly 1 to the version, so
\* soft_delete() followed by restore() on an entity leaves it not deleted with
\* the version exactly 2 greater than before; no other field changes.
C39_SoftDeleteRestore ==
    /\ last.op = "soft_delete" =>
          /\ db[last.tbl][last.id] =
                 [pre[last.tbl][last.id] EXCEPT !.deleted_at = SET, !.version = @ + 1]
          /\ IsDeleted(db[last.tbl][last.id])
    /\ last.op = "restore" =>
          /\ db[last.tbl][last.id] =
                 [pre[last.tbl][last.id] EXCEPT !.deleted_at = NULL, !.version = @ + 1]
          /\ ~IsDeleted(db[last.tbl][last.id])
    /\ (last.op = "restore" /\ ops = 2 /\ IsDeleted(pre[last.tbl][last.id])) =>
          /\ ~IsDeleted(db[last.tbl][last.id])
          /\ db[last.tbl][last.id].version = SeedVersion + 2
    /\ \A tbl \in ModelTables : \A id \in DOMAIN db[tbl] :
          /\ ~IsDeleted(Restore(SoftDelete(db[tbl][id])))
          /\ Restore(SoftDelete(db[tbl][id])).version = db[tbl][id].version + 2

\* an entity soft-deleted and then restored: live again, two versions later
C39_Witness ==
    /\ last.op = "restore" /\ ops = 2
    /\ IsDeleted(pre[last.tbl][last.id])
    /\ ~IsDeleted(db[last.tbl][last.id])
    /\ db[last.tbl][last.id].version = SeedVersion + 2

====
